---- MODULE Spec2Model ----
(***************************************************************************)
(* slowproxy (src/main.go): a TCP relay that caps the throughput of every  *)
(* forwarded connection.                                                   *)
(*                                                                         *)
(* main        waits for a signal, stores the shuttingDown flag, closes    *)
(*             the listener and returns (the process exits).               *)
(* server      the accept loop: Accept, flag check, Dial, two slowCopy     *)
(*             goroutines per connection pair.                             *)
(* slowCopy    one direction of a pair: Read, Write, delay, with the three *)
(*             exit paths (CloseWrite / CloseRead / Close both).           *)
(* delay       the rate limiter.                                           *)
(*                                                                         *)
(* Spec        the whole program, untimed.                                 *)
(* ArgSpec     the whole program from main's start, for every THROUGHPUT   *)
(*             argument that main accepts.                                 *)
(* PairSpec    one established pair with fair scheduling of its pumps.     *)
(* AnyPairSpec PairSpec for every buffer size >= 0.                        *)
(* RateSpec    one slowCopy loop against a clock.                          *)
(* DelaySpec   delay applied to every (throughput, size, duration).        *)
(***************************************************************************)
EXTENDS Integers, Sequences, FiniteSets, TLC

\* ------------------------------------------------------------------ bounds
\* connections the listener hands out over a run
MaxConns == 2
\* Spec: things the network does to the proxy over a run (a byte sent, an
\* end-of-stream, a reset, an Accept that fails on the open listener)
SrvEvents == 2
\* PairSpec: bytes the two peers of the pair send over a run
MaxBytes == 3
\* PairSpec: connection resets (RST) the two peers send over a run
MaxResets == 1
\* largest THROUGHPUT argument of Spec and PairSpec
MaxThroughput == 2
\* RateSpec: largest THROUGHPUT, largest transfer, longest Read/Write (ticks)
MaxRate == 3
MaxN == 3
MaxIo == 1
\* RateSpec: clock ticks per millisecond
TicksPerMs == 2
\* DelaySpec: longest transmissionDuration handed to delay, in milliseconds
MaxElapsedMs == 1001
\* ArgSpec: the THROUGHPUT argument ranges over -MaxNegative..MaxThroughput
MaxNegative == 1

Pairs == 1..MaxConns
Sides == {"in", "out"}
Dirs == {"c2b", "b2c"}

\* ----------------------------------------------------------------- state
VARIABLES
    throughput,    \* main: throughput (os.Args[3])
    shuttingDown,  \* main: var shuttingDown uint32
    listener,      \* "none" (before net.Listen) | "open" | "closed"
    mainPc,        \* "args" | "wait" | "close" | "return" | "exited"
    svPc,          \* server: "none" (not started) | "accept" | "check" | "dial" | "returned"
    svConn,        \* server: incomingConn (pair id, 0 when Accept failed)
    svErr,         \* server: err of Accept
    nConns,        \* connections accepted so far
    acceptErrs,    \* genuine Accept errors so far
    acceptLogs,    \* "accept: %v" lines logged
    dials,         \* net.Dial calls made per accepted connection
    sock,          \* the proxy's two sockets per pair
    peer,          \* what the remote end of each socket has done
    pump,          \* the two slowCopy goroutines per pair
    written,       \* bytes delivered to the destination, per pair and direction
    quota,         \* what the remote ends may still do: bytes, resets, events in all
    clock,         \* RateSpec: time.Now(), in ticks
    rate           \* RateSpec: the timed slowCopy loop

progVars == <<throughput, shuttingDown, listener, mainPc, svPc, svConn, svErr,
              nConns, acceptErrs, acceptLogs, dials, sock, peer, pump, written, quota>>
rateVars == <<clock, rate>>
vars == <<progVars, rateVars>>

\* ------------------------------------------------------------- helpers
Min(a, b) == IF a < b THEN a ELSE b

\* slowCopy(w, r): line 81 pumps incoming -> forward, line 82 forward -> incoming
Src(d) == IF d = "c2b" THEN "in" ELSE "out"
Dst(d) == IF d = "c2b" THEN "out" ELSE "in"
Other(d) == IF d = "c2b" THEN "b2c" ELSE "c2b"

\* the i-th byte the remote end of side s sends (distinct within and across sides)
Data(s, i) == IF s = "in" THEN i ELSE 10 + i

NoSock == [st |-> "none", rd |-> FALSE, wr |-> FALSE, bufsz |-> 0]
NoPeer == [sent |-> 0, fin |-> FALSE, reset |-> FALSE]

\* bufSize := throughput
bufSize == throughput

\* buf := make([]byte, bufSize, bufSize)
MakeBuf(n) == [i \in 1..n |-> 0]

IdlePump == [pc |-> "idle", buf |-> <<>>, size |-> 0, rdPos |-> 0, exit |-> "none"]

\* the process runs until main returns, log.Fatalf exits or a goroutine panics
Alive == mainPc # "exited"

\* ---------------------------------------------------------------- errors
\* err values as Go sees them: nil, io.EOF, or a *net.OpError whose Err is a
\* *os.SyscallError carrying an errno, or the poller's "use of closed network
\* connection"
ErrNil == [kind |-> "nil", inner |-> "", errno |-> ""]
EOF == [kind |-> "EOF", inner |-> "", errno |-> ""]
OpErrno(e) == [kind |-> "OpError", inner |-> "SyscallError", errno |-> e]
ErrNetClosing == [kind |-> "OpError", inner |-> "ErrNetClosing", errno |-> ""]

isBrokenPipe(err) ==
    /\ err.kind = "OpError"
    /\ err.inner = "SyscallError"
    /\ err.errno = "EPIPE"

\* ---------------------------------------------------------------- sockets
OpenSock == [st |-> "open", rd |-> FALSE, wr |-> FALSE, bufsz |-> 0]

\* conn.SetReadBuffer(bufSize); conn.SetWriteBuffer(bufSize)
setTcpConnBuffers(s, size) == [s EXCEPT !.bufsz = size]

\* variants with one call replaced by another (w.Close() for w.CloseWrite(),
\* r.Close() for r.CloseRead(), w.CloseWrite() for w.Close())
CloseWriteByClose(s) == IF s.st = "open" THEN [s EXCEPT !.st = "closed"] ELSE s
CloseReadByClose(s) == IF s.st = "open" THEN [s EXCEPT !.st = "closed"] ELSE s
CloseByCloseWrite(s) == IF s.st = "open" THEN [s EXCEPT !.wr = TRUE] ELSE s

\* (*net.TCPConn).CloseWrite, CloseRead, Close: each fails, changing nothing,
\* on a socket that is already closed; the code ignores the error
CloseWrite(s) == IF s.st = "open" THEN [s EXCEPT !.wr = TRUE] ELSE s
CloseRead(s) == IF s.st = "open" THEN [s EXCEPT !.rd = TRUE] ELSE s
Close(s) == IF s.st = "open" THEN [s EXCEPT !.st = "closed"] ELSE s

\* what r.Read(buf) can return now, as [n, err]; the empty set when it blocks
ReadResults(p, d) ==
    LET s == sock[p][Src(d)]
        q == peer[p][Src(d)]
        avail == q.sent - pump[p][d].rdPos
        len == Len(pump[p][d].buf)
    IN  IF s.st # "open" THEN {[n |-> 0, err |-> ErrNetClosing]}
        ELSE IF len = 0 THEN {[n |-> 0, err |-> ErrNil]}
        ELSE IF q.reset THEN {[n |-> 0, err |-> OpErrno("ECONNRESET")],
                              [n |-> 0, err |-> EOF]}
        ELSE IF avail > 0 THEN {[n |-> k, err |-> ErrNil] : k \in 1..Min(len, avail)}
        ELSE IF q.fin \/ s.rd THEN {[n |-> 0, err |-> EOF]}
        ELSE {}

\* what w.Write(buf[0:size]) can return now, as [n, err]: n bytes reached the
\* peer; a reset that arrives during the call cuts the write short
WriteResults(p, d) ==
    LET s == sock[p][Dst(d)]
        q == peer[p][Dst(d)]
        size == pump[p][d].size
    IN  IF s.st # "open" THEN {[n |-> 0, err |-> ErrNetClosing]}
        ELSE IF s.wr THEN {[n |-> 0, err |-> OpErrno("EPIPE")]}
        ELSE IF q.reset
             THEN {[n |-> k, err |-> OpErrno(e)] :
                      k \in 0..(IF size = 0 THEN 0 ELSE size - 1),
                      e \in {"EPIPE", "ECONNRESET"}}
        ELSE {[n |-> size, err |-> ErrNil]}

\* size bytes land in buf[0:size]; the rest of buf keeps what it held
FillBuf(buf, s, pos, n) ==
    [i \in 1..Len(buf) |-> IF i <= n THEN Data(s, pos + i) ELSE buf[i]]

\* variant: w.Write(buf), the whole buffer
WriteWholeBuf(buf, size) == buf

\* buf[0:size]
WriteSlice(buf, size) == SubSeq(buf, 1, size)

\* ------------------------------------------------------------------ delay
\* share := float64(transmitted) / float64(throughput)
\* expectedDelay := time.Duration(share*1000.0) * time.Millisecond
\* The conversion to time.Duration truncates share*1000.0 to whole
\* milliseconds.
expectedDelay(T, transmitted) == ((transmitted * 1000) \div T) * TicksPerMs

\* the time delay spends in time.Sleep
delay(T, transmitted, transmissionDuration) ==
    IF transmissionDuration < expectedDelay(T, transmitted)
    THEN expectedDelay(T, transmitted) - transmissionDuration
    ELSE 0

\* float64(0) / float64(0) is NaN, and so is NaN*1000.0. What the conversion
\* time.Duration(NaN) yields depends on the build: -2^63 (amd64, 386, ppc64,
\* s390x), 0 (arm64, wasm) or 2^63 - 1 (riscv64, mips64). An int64 is written
\* here as hi * 2^63 + lo.
NaNToInt64 == {[hi |-> 0 - 1, lo |-> 0], [hi |-> 0, lo |-> 0], [hi |-> 1, lo |-> 0 - 1]}

\* c * time.Millisecond in int64, in milliseconds: time.Millisecond is
\* 1000000, an even number, so hi * 2^63 * 1000000 is a multiple of 2^64 and
\* wraps to 0; lo * 1000000 ns stays
MulMillisecond(c) == c.lo

\* the times delay can spend in time.Sleep: one for T > 0; for T = 0, which
\* comes with transmitted = 0 only (transmitted is at most len(buf) = T), one
\* for each value expectedDelay can take, in ticks
delays(T, transmitted, transmissionDuration) ==
    IF T = 0
    THEN {IF transmissionDuration < x THEN x - transmissionDuration ELSE 0 :
             x \in {MulMillisecond(c) * TicksPerMs : c \in NaNToInt64}}
    ELSE {delay(T, transmitted, transmissionDuration)}

\* --------------------------------------------------------------- slowCopy
mainVars == <<shuttingDown, listener, mainPc>>
svVars == <<svPc, svConn, svErr, nConns, acceptErrs, acceptLogs, dials>>

\* return: the goroutine ends and its buf and size are gone
Exit(p, d, how) ==
    [pump EXCEPT ![p][d].pc = "done", ![p][d].exit = how,
                 ![p][d].buf = <<>>, ![p][d].size = 0]

\* variant: a Read of 0 bytes taken for end-of-stream
ReadDataZeroIsEof(p, d) ==
    /\ Alive
    /\ pump[p][d].pc = "read"
    /\ \E r \in ReadResults(p, d) :
         /\ r.err = ErrNil
         /\ IF r.n = 0
            THEN /\ sock' = [sock EXCEPT ![p][Dst(d)] = CloseWrite(@)]
                 /\ pump' = Exit(p, d, "eof")
            ELSE /\ sock' = sock
                 /\ pump' = [pump EXCEPT
                        ![p][d].buf = FillBuf(@, Src(d), pump[p][d].rdPos, r.n),
                        ![p][d].size = r.n,
                        ![p][d].rdPos = @ + r.n,
                        ![p][d].pc = "write"]
    /\ UNCHANGED <<throughput, mainVars, svVars, peer, written, quota, rateVars>>

\* size, err := r.Read(buf) with err = nil
ReadData(p, d) ==
    /\ Alive
    /\ pump[p][d].pc = "read"
    /\ \E r \in ReadResults(p, d) :
         /\ r.err = ErrNil
         /\ pump' = [pump EXCEPT
                ![p][d].buf = FillBuf(@, Src(d), pump[p][d].rdPos, r.n),
                ![p][d].size = r.n,
                ![p][d].rdPos = @ + r.n,
                ![p][d].pc = "write"]
    /\ UNCHANGED <<throughput, mainVars, svVars, sock, peer, written, quota, rateVars>>

\* variant: end-of-stream handled like any other error, w.Close(); r.Close()
ReadClosedTearsDown(p, d) ==
    /\ Alive
    /\ pump[p][d].pc = "read"
    /\ \E r \in ReadResults(p, d) :
         /\ r.err = EOF \/ isBrokenPipe(r.err)
         /\ sock' = [sock EXCEPT ![p][Dst(d)] = Close(@), ![p][Src(d)] = Close(@)]
         /\ pump' = Exit(p, d, "eof")
    /\ UNCHANGED <<throughput, mainVars, svVars, peer, written, quota, rateVars>>

\* if err == io.EOF || isBrokenPipe(err) { w.CloseWrite(); return }
ReadClosed(p, d) ==
    /\ Alive
    /\ pump[p][d].pc = "read"
    /\ \E r \in ReadResults(p, d) :
         /\ r.err = EOF \/ isBrokenPipe(r.err)
         /\ sock' = [sock EXCEPT ![p][Dst(d)] = CloseWrite(@)]
         /\ pump' = Exit(p, d, "eof")
    /\ UNCHANGED <<throughput, mainVars, svVars, peer, written, quota, rateVars>>

\* variant: a fatal read error closes the sockets of every pair
ReadFatalClosesAll(p, d) ==
    /\ Alive
    /\ pump[p][d].pc = "read"
    /\ \E r \in ReadResults(p, d) :
         /\ r.err # ErrNil
         /\ ~(r.err = EOF \/ isBrokenPipe(r.err))
         /\ sock' = [q \in Pairs |-> [s \in Sides |-> Close(sock[q][s])]]
         /\ pump' = Exit(p, d, "fatal")
    /\ UNCHANGED <<throughput, mainVars, svVars, peer, written, quota, rateVars>>

\* if err != nil { w.Close(); r.Close(); return }
ReadFatal(p, d) ==
    /\ Alive
    /\ pump[p][d].pc = "read"
    /\ \E r \in ReadResults(p, d) :
         /\ r.err # ErrNil
         /\ ~(r.err = EOF \/ isBrokenPipe(r.err))
         /\ sock' = [sock EXCEPT ![p][Dst(d)] = Close(@), ![p][Src(d)] = Close(@)]
         /\ pump' = Exit(p, d, "fatal")
    /\ UNCHANGED <<throughput, mainVars, svVars, peer, written, quota, rateVars>>

\* _, err = w.Write(buf[0:size]) with err = nil
WriteOk(p, d) ==
    /\ Alive
    /\ pump[p][d].pc = "write"
    /\ \E r \in WriteResults(p, d) :
         /\ r.err = ErrNil
         /\ written' = [written EXCEPT
                ![p][d] = @ \o WriteSlice(pump[p][d].buf, pump[p][d].size)]
         /\ pump' = [pump EXCEPT ![p][d].pc = "delay"]
    /\ UNCHANGED <<throughput, mainVars, svVars, sock, peer, quota, rateVars>>

\* if err == io.EOF || isBrokenPipe(err) { r.CloseRead(); return }
WriteBroken(p, d) ==
    /\ Alive
    /\ pump[p][d].pc = "write"
    /\ \E r \in WriteResults(p, d) :
         /\ r.err = EOF \/ isBrokenPipe(r.err)
         /\ written' = [written EXCEPT
                ![p][d] = @ \o SubSeq(WriteSlice(pump[p][d].buf, pump[p][d].size), 1, r.n)]
         /\ sock' = [sock EXCEPT ![p][Src(d)] = CloseRead(@)]
         /\ pump' = Exit(p, d, "epipe")
    /\ UNCHANGED <<throughput, mainVars, svVars, peer, quota, rateVars>>

\* if err != nil { w.Close(); r.Close(); return }
WriteFatal(p, d) ==
    /\ Alive
    /\ pump[p][d].pc = "write"
    /\ \E r \in WriteResults(p, d) :
         /\ r.err # ErrNil
         /\ ~(r.err = EOF \/ isBrokenPipe(r.err))
         /\ written' = [written EXCEPT
                ![p][d] = @ \o SubSeq(WriteSlice(pump[p][d].buf, pump[p][d].size), 1, r.n)]
         /\ sock' = [sock EXCEPT ![p][Dst(d)] = Close(@), ![p][Src(d)] = Close(@)]
         /\ pump' = Exit(p, d, "fatal")
    /\ UNCHANGED <<throughput, mainVars, svVars, peer, quota, rateVars>>

\* delay(throughput, size, time.Since(start)) returns, the loop starts over
Delay(p, d) ==
    /\ Alive
    /\ pump[p][d].pc = "delay"
    /\ pump' = [pump EXCEPT ![p][d].pc = "read"]
    /\ UNCHANGED <<throughput, mainVars, svVars, sock, peer, written, quota, rateVars>>

slowCopy(p, d) ==
    \/ ReadData(p, d)
    \/ ReadClosed(p, d)
    \/ ReadFatal(p, d)
    \/ WriteOk(p, d)
    \/ WriteBroken(p, d)
    \/ WriteFatal(p, d)
    \/ Delay(p, d)

\* ------------------------------------------------------------ remote ends
\* the remote end of side s sends one more byte
PeerSend(p, s) ==
    /\ Alive
    /\ sock[p][s].st = "open"
    /\ ~peer[p][s].fin
    /\ ~peer[p][s].reset
    /\ quota.bytes > 0 /\ quota.events > 0
    /\ quota' = [quota EXCEPT !.bytes = @ - 1, !.events = @ - 1]
    /\ peer' = [peer EXCEPT ![p][s].sent = @ + 1]
    /\ UNCHANGED <<throughput, mainVars, svVars, sock, pump, written, rateVars>>

\* the remote end shuts down its write side (FIN)
PeerFin(p, s) ==
    /\ Alive
    /\ sock[p][s].st = "open"
    /\ ~peer[p][s].fin
    /\ ~peer[p][s].reset
    /\ quota.events > 0
    /\ quota' = [quota EXCEPT !.events = @ - 1]
    /\ peer' = [peer EXCEPT ![p][s].fin = TRUE]
    /\ UNCHANGED <<throughput, mainVars, svVars, sock, pump, written, rateVars>>

\* the remote end resets the connection (RST)
PeerReset(p, s) ==
    /\ Alive
    /\ sock[p][s].st = "open"
    /\ ~peer[p][s].reset
    /\ quota.resets > 0 /\ quota.events > 0
    /\ quota' = [quota EXCEPT !.resets = @ - 1, !.events = @ - 1]
    /\ peer' = [peer EXCEPT ![p][s].reset = TRUE]
    /\ UNCHANGED <<throughput, mainVars, svVars, sock, pump, written, rateVars>>

\* ----------------------------------------------------------------- server
\* incomingConn, err := listener.Accept() returns a connection
AcceptOk ==
    /\ Alive
    /\ svPc = "accept"
    /\ listener = "open"
    /\ nConns < MaxConns
    /\ nConns' = nConns + 1
    /\ sock' = [sock EXCEPT ![nConns + 1]["in"] = OpenSock]
    /\ svConn' = nConns + 1
    /\ svErr' = ErrNil
    /\ svPc' = "check"
    /\ UNCHANGED <<throughput, mainVars, acceptErrs, acceptLogs, dials, peer, pump,
                   written, quota, rateVars>>

\* Accept fails while the listener is open (EMFILE, ECONNABORTED, ...)
AcceptErr ==
    /\ Alive
    /\ svPc = "accept"
    /\ listener = "open"
    /\ quota.events > 0
    /\ quota' = [quota EXCEPT !.events = @ - 1]
    /\ acceptErrs' = acceptErrs + 1
    /\ svConn' = 0
    /\ svErr' = OpErrno("EMFILE")
    /\ svPc' = "check"
    /\ UNCHANGED <<throughput, mainVars, nConns, acceptLogs, dials, sock, peer, pump,
                   written, rateVars>>

\* Accept fails because the listener is closed
AcceptClosed ==
    /\ Alive
    /\ svPc = "accept"
    /\ listener = "closed"
    /\ svConn' = 0
    /\ svErr' = ErrNetClosing
    /\ svPc' = "check"
    /\ UNCHANGED <<throughput, mainVars, nConns, acceptErrs, acceptLogs, dials, sock,
                   peer, pump, written, quota, rateVars>>

\* variant: the accept loop clears the flag it has seen
CheckShutdownClears ==
    /\ Alive
    /\ svPc = "check"
    /\ shuttingDown # 0
    /\ shuttingDown' = 0
    /\ svPc' = "returned"
    /\ UNCHANGED <<throughput, listener, mainPc, svConn, svErr, nConns, acceptErrs,
                   acceptLogs, dials, sock, peer, pump, written, quota, rateVars>>

\* if atomic.LoadUint32(shuttingDown) != 0 { return }
CheckShutdown ==
    /\ Alive
    /\ svPc = "check"
    /\ shuttingDown # 0
    /\ svPc' = "returned"
    /\ UNCHANGED <<throughput, mainVars, svConn, svErr, nConns, acceptErrs, acceptLogs,
                   dials, sock, peer, pump, written, quota, rateVars>>

\* variant: return in place of continue
CheckErrReturns ==
    /\ Alive
    /\ svPc = "check"
    /\ shuttingDown = 0
    /\ svErr # ErrNil
    /\ acceptLogs' = acceptLogs + 1
    /\ svPc' = "returned"
    /\ UNCHANGED <<throughput, mainVars, svConn, svErr, nConns, acceptErrs, dials,
                   sock, peer, pump, written, quota, rateVars>>

\* if err != nil { log.Printf("accept: %v", err); continue }
CheckErr ==
    /\ Alive
    /\ svPc = "check"
    /\ shuttingDown = 0
    /\ svErr # ErrNil
    /\ acceptLogs' = acceptLogs + 1
    /\ svPc' = "accept"
    /\ UNCHANGED <<throughput, mainVars, svConn, svErr, nConns, acceptErrs, dials,
                   sock, peer, pump, written, quota, rateVars>>

\* variant: the error is tested without the flag having been tested
CheckOkIgnoresFlag ==
    /\ Alive
    /\ svPc = "check"
    /\ svErr = ErrNil
    /\ svPc' = "dial"
    /\ UNCHANGED <<throughput, mainVars, svConn, svErr, nConns, acceptErrs, acceptLogs,
                   dials, sock, peer, pump, written, quota, rateVars>>

\* neither: go on to net.Dial
CheckOk ==
    /\ Alive
    /\ svPc = "check"
    /\ shuttingDown = 0
    /\ svErr = ErrNil
    /\ svPc' = "dial"
    /\ UNCHANGED <<throughput, mainVars, svConn, svErr, nConns, acceptErrs, acceptLogs,
                   dials, sock, peer, pump, written, quota, rateVars>>

\* variant: the failed dial leaves incomingConn open
DialFailLeavesOpen ==
    /\ Alive
    /\ svPc = "dial"
    /\ dials' = [dials EXCEPT ![svConn] = @ + 1]
    /\ svPc' = "accept"
    /\ UNCHANGED <<throughput, mainVars, svConn, svErr, nConns, acceptErrs, acceptLogs,
                   sock, peer, pump, written, quota, rateVars>>

\* net.Dial fails: log, incomingConn.Close(), continue
DialFail ==
    /\ Alive
    /\ svPc = "dial"
    /\ dials' = [dials EXCEPT ![svConn] = @ + 1]
    /\ sock' = [sock EXCEPT ![svConn]["in"] = Close(@)]
    /\ svPc' = "accept"
    /\ UNCHANGED <<throughput, mainVars, svConn, svErr, nConns, acceptErrs, acceptLogs,
                   peer, pump, written, quota, rateVars>>

\* go slowCopy(...): buf := make([]byte, bufSize, bufSize) touches nothing
\* shared and cannot fail for bufSize >= 0, so the goroutine starts at its
\* first Read; for bufSize < 0 make panics, which is a step of its own
StartPump ==
    IF bufSize < 0
    THEN [IdlePump EXCEPT !.pc = "make"]
    ELSE [pc |-> "read", buf |-> MakeBuf(bufSize), size |-> 0, rdPos |-> 0,
          exit |-> "none"]

\* make([]byte, bufSize, bufSize) with bufSize < 0: "panic: runtime error:
\* makeslice: len out of range"; nothing recovers it and the process dies
MakePanic(p, d) ==
    /\ Alive
    /\ pump[p][d].pc = "make"
    /\ pump' = [pump EXCEPT ![p][d].pc = "panic"]
    /\ mainPc' = "exited"
    /\ UNCHANGED <<throughput, shuttingDown, listener, svVars, sock, peer, written,
                   quota, rateVars>>

\* net.Dial succeeds: set both sockets' buffers, start the two pumps
DialOk ==
    /\ Alive
    /\ svPc = "dial"
    /\ dials' = [dials EXCEPT ![svConn] = @ + 1]
    /\ sock' = [sock EXCEPT
           ![svConn]["in"] = setTcpConnBuffers(@, bufSize),
           ![svConn]["out"] = setTcpConnBuffers(OpenSock, bufSize)]
    /\ pump' = [pump EXCEPT ![svConn] = [d \in Dirs |-> StartPump]]
    /\ svPc' = "accept"
    /\ UNCHANGED <<throughput, mainVars, svConn, svErr, nConns, acceptErrs, acceptLogs,
                   peer, written, quota, rateVars>>

server ==
    \/ AcceptOk
    \/ AcceptErr
    \/ AcceptClosed
    \/ CheckShutdown
    \/ CheckErr
    \/ CheckOk
    \/ DialFail
    \/ DialOk

\* ------------------------------------------------------------------- main
\* strconv.Atoi succeeded, net.Listen succeeds: go server(...)
MainStart ==
    /\ mainPc = "args"
    /\ listener' = "open"
    /\ svPc' = "accept"
    /\ mainPc' = "wait"
    /\ UNCHANGED <<throughput, shuttingDown, svConn, svErr, nConns, acceptErrs,
                   acceptLogs, dials, sock, peer, pump, written, quota, rateVars>>

\* net.Listen fails: log.Fatalf("listen: %v", err)
MainListenFail ==
    /\ mainPc = "args"
    /\ mainPc' = "exited"
    /\ UNCHANGED <<throughput, shuttingDown, listener, svVars, sock, peer, pump,
                   written, quota, rateVars>>

\* variant: the flag is not stored before the listener is closed
MainSignalNoStore ==
    /\ mainPc = "wait"
    /\ mainPc' = "close"
    /\ UNCHANGED <<throughput, shuttingDown, listener, svVars, sock, peer, pump,
                   written, quota, rateVars>>

\* <-shutdown; atomic.StoreUint32(&shuttingDown, 1)
MainSignal ==
    /\ mainPc = "wait"
    /\ shuttingDown' = 1
    /\ mainPc' = "close"
    /\ UNCHANGED <<throughput, listener, svVars, sock, peer, pump, written, quota, rateVars>>

\* variant: shutdown also closes every open connection
MainCloseTearsDown ==
    /\ mainPc = "close"
    /\ listener' = "closed"
    /\ mainPc' = "return"
    /\ sock' = [p \in Pairs |-> [s \in Sides |-> Close(sock[p][s])]]
    /\ UNCHANGED <<throughput, shuttingDown, svVars, peer, pump, written, quota, rateVars>>

\* err = listener.Close()
MainClose ==
    /\ mainPc = "close"
    /\ listener' = "closed"
    /\ mainPc' = "return"
    /\ UNCHANGED <<throughput, shuttingDown, svVars, sock, peer, pump, written, quota, rateVars>>

\* main returns: the program exits and every goroutine stops where it is
MainReturn ==
    /\ mainPc = "return"
    /\ mainPc' = "exited"
    /\ UNCHANGED <<throughput, shuttingDown, listener, svVars, sock, peer, pump,
                   written, quota, rateVars>>

main ==
    \/ MainSignal
    \/ MainClose
    \/ MainReturn

\* ---------------------------------------------------------- specifications
IdleRate == [pc |-> "idle", start |-> 0, size |-> 0, sent |-> 0, n |-> 0]

\* Spec runs with the largest throughput, hence the largest buffer: a Read may
\* still return any shorter chunk
Init ==
    /\ throughput = MaxThroughput
    /\ shuttingDown = 0
    /\ listener = "open"
    /\ mainPc = "wait"
    /\ svPc = "accept"
    /\ svConn = 0
    /\ svErr = ErrNil
    /\ nConns = 0
    /\ acceptErrs = 0
    /\ acceptLogs = 0
    /\ dials = [p \in Pairs |-> 0]
    /\ sock = [p \in Pairs |-> [s \in Sides |-> NoSock]]
    /\ peer = [p \in Pairs |-> [s \in Sides |-> NoPeer]]
    /\ pump = [p \in Pairs |-> [d \in Dirs |-> IdlePump]]
    /\ written = [p \in Pairs |-> [d \in Dirs |-> <<>>]]
    /\ quota = [bytes |-> SrvEvents, resets |-> SrvEvents, events |-> SrvEvents]
    /\ clock = 0
    /\ rate = IdleRate

Next ==
    \/ main
    \/ server
    \/ \E p \in Pairs, d \in Dirs : slowCopy(p, d)
    \/ \E p \in Pairs, s \in Sides : PeerSend(p, s) \/ PeerFin(p, s) \/ PeerReset(p, s)

Spec == Init /\ [][Next]_vars

\* ------------------------------------------------------- one pair, fairly
\* the state server leaves behind once Accept and Dial have succeeded for the
\* first connection; the listener then stays idle
PairInit ==
    /\ throughput \in 1..MaxThroughput
    /\ shuttingDown = 0
    /\ listener = "open"
    /\ mainPc = "wait"
    /\ svPc = "accept"
    /\ svConn = 1
    /\ svErr = ErrNil
    /\ nConns = 1
    /\ acceptErrs = 0
    /\ acceptLogs = 0
    /\ dials = [p \in Pairs |-> IF p = 1 THEN 1 ELSE 0]
    /\ sock = [p \in Pairs |-> [s \in Sides |->
                 IF p = 1 THEN setTcpConnBuffers(OpenSock, bufSize) ELSE NoSock]]
    /\ peer = [p \in Pairs |-> [s \in Sides |-> NoPeer]]
    /\ pump = [p \in Pairs |-> [d \in Dirs |-> IF p = 1 THEN StartPump ELSE IdlePump]]
    /\ written = [p \in Pairs |-> [d \in Dirs |-> <<>>]]
    /\ quota = [bytes |-> MaxBytes, resets |-> MaxResets,
                events |-> MaxBytes + MaxResets + Cardinality(Sides)]
    /\ clock = 0
    /\ rate = IdleRate

PairNext ==
    \/ \E d \in Dirs : slowCopy(1, d)
    \/ \E s \in Sides : PeerSend(1, s) \/ PeerFin(1, s) \/ PeerReset(1, s)

\* each goroutine is scheduled again and again: a Read that can return, a
\* Write that can complete and a Sleep that is over do not wait forever
PairSpec ==
    /\ PairInit
    /\ [][PairNext]_vars
    /\ \A d \in Dirs : WF_vars(slowCopy(1, d))

\* --------------------------------------- one pair, any accepted buffer size
\* as PairInit, for every THROUGHPUT that main accepts and make can allocate
AnyPairInit ==
    /\ throughput \in 0..MaxThroughput
    /\ shuttingDown = 0
    /\ listener = "open"
    /\ mainPc = "wait"
    /\ svPc = "accept"
    /\ svConn = 1
    /\ svErr = ErrNil
    /\ nConns = 1
    /\ acceptErrs = 0
    /\ acceptLogs = 0
    /\ dials = [p \in Pairs |-> IF p = 1 THEN 1 ELSE 0]
    /\ sock = [p \in Pairs |-> [s \in Sides |->
                 IF p = 1 THEN setTcpConnBuffers(OpenSock, bufSize) ELSE NoSock]]
    /\ peer = [p \in Pairs |-> [s \in Sides |-> NoPeer]]
    /\ pump = [p \in Pairs |-> [d \in Dirs |-> IF p = 1 THEN StartPump ELSE IdlePump]]
    /\ written = [p \in Pairs |-> [d \in Dirs |-> <<>>]]
    /\ quota = [bytes |-> MaxBytes, resets |-> MaxResets,
                events |-> MaxBytes + MaxResets + Cardinality(Sides)]
    /\ clock = 0
    /\ rate = IdleRate

AnyPairSpec ==
    /\ AnyPairInit
    /\ [][PairNext]_vars
    /\ \A d \in Dirs : WF_vars(slowCopy(1, d))

\* ------------------------------------------------- one pump against a clock
\* start := time.Now(); size, err := r.Read(buf): the Read returns k bytes
\* after io ticks
RateRead ==
    /\ rate.pc = "read"
    /\ rate.sent < rate.n
    /\ \E k \in 1..Min(bufSize, rate.n - rate.sent), io \in 0..MaxIo :
         /\ rate' = [rate EXCEPT !.start = clock, !.size = k, !.pc = "write"]
         /\ clock' = clock + io
    /\ UNCHANGED progVars

\* w.Write(buf[0:size]) completes after io ticks
RateWrite ==
    /\ rate.pc = "write"
    /\ \E io \in 0..MaxIo :
         /\ rate' = [rate EXCEPT !.sent = @ + rate.size, !.pc = "delay"]
         /\ clock' = clock + io
    /\ UNCHANGED progVars

\* delay(throughput, size, time.Since(start)): time.Sleep returns exactly on time
RateDelay ==
    /\ rate.pc = "delay"
    /\ \E sleep \in delays(throughput, rate.size, clock - rate.start) :
         clock' = clock + sleep
    /\ rate' = [rate EXCEPT !.pc = "read"]
    /\ UNCHANGED progVars

RateInit ==
    /\ throughput \in 1..MaxRate
    /\ shuttingDown = 0
    /\ listener = "open"
    /\ mainPc = "wait"
    /\ svPc = "accept"
    /\ svConn = 1
    /\ svErr = ErrNil
    /\ nConns = 1
    /\ acceptErrs = 0
    /\ acceptLogs = 0
    /\ dials = [p \in Pairs |-> IF p = 1 THEN 1 ELSE 0]
    /\ sock = [p \in Pairs |-> [s \in Sides |->
                 IF p = 1 THEN setTcpConnBuffers(OpenSock, bufSize) ELSE NoSock]]
    /\ peer = [p \in Pairs |-> [s \in Sides |-> NoPeer]]
    /\ pump = [p \in Pairs |-> [d \in Dirs |-> IdlePump]]
    /\ written = [p \in Pairs |-> [d \in Dirs |-> <<>>]]
    /\ quota = [bytes |-> 0, resets |-> 0, events |-> 0]
    /\ clock = 0
    /\ \E n \in 1..MaxN :
         rate = [pc |-> "read", start |-> 0, size |-> 0, sent |-> 0, n |-> n]

RateNext == RateRead \/ RateWrite \/ RateDelay

RateSpec == RateInit /\ [][RateNext]_vars

\* ------------------------------------------------------ delay on its own
\* a pump about to call delay(throughput, size, time.Since(start)) with any
\* size from 0 to the buffer's length and any time spent in Read and Write
DelayInit ==
    /\ throughput \in 1..MaxRate
    /\ shuttingDown = 0
    /\ listener = "open"
    /\ mainPc = "wait"
    /\ svPc = "accept"
    /\ svConn = 1
    /\ svErr = ErrNil
    /\ nConns = 1
    /\ acceptErrs = 0
    /\ acceptLogs = 0
    /\ dials = [p \in Pairs |-> IF p = 1 THEN 1 ELSE 0]
    /\ sock = [p \in Pairs |-> [s \in Sides |->
                 IF p = 1 THEN setTcpConnBuffers(OpenSock, bufSize) ELSE NoSock]]
    /\ peer = [p \in Pairs |-> [s \in Sides |-> NoPeer]]
    /\ pump = [p \in Pairs |-> [d \in Dirs |-> IdlePump]]
    /\ written = [p \in Pairs |-> [d \in Dirs |-> <<>>]]
    /\ quota = [bytes |-> 0, resets |-> 0, events |-> 0]
    /\ clock \in 0..(MaxElapsedMs * TicksPerMs)
    /\ \E n \in 0..bufSize :
         rate = [pc |-> "delay", start |-> 0, size |-> n, sent |-> n, n |-> n]

DelayNext == RateDelay

DelaySpec == DelayInit /\ [][DelayNext]_vars

\* ------------------------------------------- any accepted command line
\* main as it starts, for every THROUGHPUT that strconv.Atoi accepts: the
\* code checks only that the argument is an integer
ArgInit ==
    /\ throughput \in (0 - MaxNegative)..MaxThroughput
    /\ shuttingDown = 0
    /\ listener = "none"
    /\ mainPc = "args"
    /\ svPc = "none"
    /\ svConn = 0
    /\ svErr = ErrNil
    /\ nConns = 0
    /\ acceptErrs = 0
    /\ acceptLogs = 0
    /\ dials = [p \in Pairs |-> 0]
    /\ sock = [p \in Pairs |-> [s \in Sides |-> NoSock]]
    /\ peer = [p \in Pairs |-> [s \in Sides |-> NoPeer]]
    /\ pump = [p \in Pairs |-> [d \in Dirs |-> IdlePump]]
    /\ written = [p \in Pairs |-> [d \in Dirs |-> <<>>]]
    /\ quota = [bytes |-> SrvEvents, resets |-> SrvEvents, events |-> SrvEvents]
    /\ clock = 0
    /\ rate = IdleRate

ArgNext ==
    \/ MainStart
    \/ MainListenFail
    \/ Next
    \/ \E p \in Pairs, d \in Dirs : MakePanic(p, d)

ArgSpec == ArgInit /\ [][ArgNext]_vars

\* ================================================================= claims
Running(p, d) == pump[p][d].pc \in {"read", "write", "delay"}
NoReset == \A s \in Sides : ~peer[1][s].reset

\* the bytes the remote end of side s of pair p has sent so far
Sent(p, s) == [i \in 1..peer[p][s].sent |-> Data(s, i)]
\* the bytes pump d of pair p has read from its source so far
ReadSeq(p, d) == [i \in 1..pump[p][d].rdPos |-> Data(Src(d), i)]
IsPrefix(a, b) == Len(a) <= Len(b) /\ a = SubSeq(b, 1, Len(a))

\* ---- C1 (RateSpec)
\* C1: once a pump has relayed all N bytes and the delay after its last write
\* is over, at least N / throughput seconds have passed since its first read
\* began: clock / (1000 * TicksPerMs) >= N / throughput.
C1_ThroughputBound ==
    (rate.pc = "read" /\ rate.sent = rate.n)
        => clock * throughput >= rate.n * 1000 * TicksPerMs

\* ---- C2 (PairSpec)
\* C2: what a pump has written is always a prefix of what it has read; between
\* chunks (before a Read, during the delay) it has written everything it read,
\* and during a Write exactly the chunk just read is missing.
C2_InOrder ==
    \A d \in Dirs :
        /\ IsPrefix(written[1][d], ReadSeq(1, d))
        /\ pump[1][d].pc \in {"read", "delay"} => written[1][d] = ReadSeq(1, d)
        /\ pump[1][d].pc = "write" =>
               /\ pump[1][d].size <= Len(pump[1][d].buf)
               /\ written[1][d] \o SubSeq(pump[1][d].buf, 1, pump[1][d].size)
                      = ReadSeq(1, d)

\* three client bytes relayed in more than one chunk
C2_Witness ==
    /\ throughput = 2
    /\ written[1]["c2b"] = <<1, 2, 3>>
    /\ pump[1]["c2b"].pc = "delay"

\* ---- C3 (PairSpec)
\* C3: the step in which a pump leaves on end-of-stream sets only the write
\* shutdown of its destination (nothing at all if that socket is already
\* closed): no socket is closed, the destination's read side and the source
\* are untouched, no byte is written then or later by that pump, and the
\* opposite pump is left as it was; if the opposite pump is in its Write and
\* nothing else has happened to the pair, that Write can complete.
C3_EofStep(d) ==
    (pump[1][d].exit = "none" /\ pump'[1][d].exit = "eof") =>
        /\ pump'[1][d].pc = "done"
        /\ written' = written
        /\ sock'[1][Src(d)] = sock[1][Src(d)]
        /\ sock'[1][Dst(d)].st = sock[1][Dst(d)].st
        /\ sock'[1][Dst(d)].rd = sock[1][Dst(d)].rd
        /\ sock'[1][Dst(d)].wr = (sock[1][Dst(d)].wr \/ sock[1][Dst(d)].st = "open")
        /\ pump'[1][Other(d)] = pump[1][Other(d)]

C3_EofHalfClose ==
    /\ [][\A d \in Dirs : C3_EofStep(d)]_vars
    /\ [][\A d \in Dirs : pump[1][d].pc = "done" => written'[1][d] = written[1][d]]_vars
    /\ [](\A d \in Dirs :
            (/\ pump[1][d].exit = "eof"
             /\ pump[1][Other(d)].pc = "write"
             /\ NoReset)
            => ENABLED WriteOk(1, Other(d)))

\* the client-to-backend pump has left on end-of-stream and the backend-to-
\* client pump is relaying a byte
C3_Witness ==
    /\ pump[1]["c2b"].exit = "eof"
    /\ sock[1]["out"].wr /\ sock[1]["out"].st = "open" /\ sock[1]["in"].st = "open"
    /\ pump[1]["b2c"].pc = "write"
    /\ NoReset

\* ---- C4 (PairSpec)
\* C4: with no reset on the pair, (a) once the client-to-backend pump has left
\* on the client's end-of-stream, the outbound socket is write-shut, still
\* open, and the backend has received every byte the client sent; (b) from
\* then on the k-th byte of the backend, once sent, is eventually delivered
\* to the client (unless a reset intervenes).
C4_HalfClose ==
    /\ []((pump[1]["c2b"].exit = "eof" /\ NoReset) =>
            /\ peer[1]["in"].fin
            /\ sock[1]["out"].wr
            /\ sock[1]["out"].st = "open"
            /\ sock[1]["in"].st = "open"
            /\ written[1]["c2b"] = Sent(1, "in"))
    /\ \A k \in 1..MaxBytes :
         (pump[1]["c2b"].exit = "eof" /\ peer[1]["out"].sent >= k /\ NoReset)
            ~> (\/ ~NoReset
                \/ /\ Len(written[1]["b2c"]) >= k
                   /\ written[1]["b2c"][k] = Data("out", k))

\* the client sent two bytes and half-closed, the half-close has reached the
\* backend, and the backend's reply is on its way to the client
C4_Witness ==
    /\ peer[1]["in"].fin /\ peer[1]["in"].sent = 2
    /\ pump[1]["c2b"].exit = "eof"
    /\ written[1]["c2b"] = <<1, 2>>
    /\ written[1]["b2c"] = <<>>
    /\ pump[1]["b2c"].pc = "write"
    /\ NoReset

\* ---- C5 (PairSpec)
\* C5: the step in which a pump leaves on a broken pipe sets only the read
\* shutdown of its source: no socket is closed, the destination is untouched,
\* the pump is done and the opposite pump is left as it was.
C5_EpipeStep(d) ==
    (pump[1][d].exit = "none" /\ pump'[1][d].exit = "epipe") =>
        /\ pump[1][d].pc = "write"
        /\ pump'[1][d].pc = "done"
        /\ sock'[1][Dst(d)] = sock[1][Dst(d)]
        /\ sock'[1][Src(d)].st = sock[1][Src(d)].st
        /\ sock'[1][Src(d)].wr = sock[1][Src(d)].wr
        /\ sock'[1][Src(d)].rd = (sock[1][Src(d)].rd \/ sock[1][Src(d)].st = "open")
        /\ pump'[1][Other(d)] = pump[1][Other(d)]

C5_BrokenPipe == [][\A d \in Dirs : C5_EpipeStep(d)]_vars

\* the backend reset the connection, the client-to-backend pump left on EPIPE
\* and the other pump is still running
C5_Witness ==
    /\ pump[1]["c2b"].exit = "epipe"
    /\ sock[1]["in"].rd /\ sock[1]["in"].st = "open" /\ sock[1]["out"].st = "open"
    /\ Running(1, "b2c")

\* ---- C6 (PairSpec)
\* C6: the step in which a pump leaves on any other error leaves both sockets
\* closed and the pump done; afterwards the opposite pump is eventually done.
C6_FatalStep(d) ==
    (pump[1][d].exit = "none" /\ pump'[1][d].exit = "fatal") =>
        /\ pump'[1][d].pc = "done"
        /\ sock'[1]["in"].st = "closed"
        /\ sock'[1]["out"].st = "closed"

C6_Fatal ==
    /\ [][\A d \in Dirs : C6_FatalStep(d)]_vars
    /\ \A d \in Dirs :
         (pump[1][d].exit = "fatal") ~> (pump[1][Other(d)].pc = "done")

\* a reset killed one pump and the closed sockets then ended the other
C6_Witness ==
    /\ pump[1]["c2b"].exit = "fatal"
    /\ pump[1]["b2c"].exit = "fatal"
    /\ peer[1]["in"].reset /\ ~peer[1]["out"].reset

\* ---- C7 (Spec)
\* C7: the listener is never closed while the flag is clear; whenever the
\* accept loop holds the error of an Accept on the closed listener the flag is
\* set; its next step is then to return, logging no accept error; and once it
\* has returned it never runs again.
C7_ShutdownSuppressed ==
    /\ [](listener = "closed" => shuttingDown = 1)
    /\ []((svPc = "check" /\ svErr = ErrNetClosing) => shuttingDown # 0)
    /\ [][(svPc = "check" /\ svErr = ErrNetClosing /\ svPc' # svPc)
             => (svPc' = "returned" /\ acceptLogs' = acceptLogs)]_vars
    /\ [][svPc = "returned" => UNCHANGED svVars]_vars

\* the accept loop has returned on the closed listener's error, nothing logged
C7_Witness ==
    /\ svPc = "returned"
    /\ svErr = ErrNetClosing
    /\ listener = "closed"
    /\ acceptLogs = 0

\* ---- C8 (Spec)
\* C8 as stated: no pump is stopped by the shutdown sequence, so no pump is
\* left in the middle of its loop when the shutdown sequence has run to its
\* end.
C8_NoPumpStoppedByShutdown ==
    \A p \in Pairs, d \in Dirs : Running(p, d) => Alive

\* C8, amended: storing the flag and closing the listener change no socket,
\* no pump and no delivered byte, and while the process lives a pump stops
\* only through one of its own exit paths; main's return then ends the
\* process, after which no pump moves, whatever it was doing.
C8_ShutdownLeavesPumps ==
    /\ [][(mainPc \in {"wait", "close"} /\ mainPc' # mainPc)
             => UNCHANGED <<sock, pump, written, peer>>]_vars
    /\ [][\A p \in Pairs, d \in Dirs :
             (Running(p, d) /\ pump'[p][d].pc \notin {"read", "write", "delay"})
                 => (/\ Alive
                     /\ pump'[p][d].pc = "done"
                     /\ pump'[p][d].exit \in {"eof", "epipe", "fatal"})]_vars
    /\ [][mainPc = "exited" => UNCHANGED <<sock, pump, written>>]_vars

\* a pump that was in the middle of a Write when the process exited
C8_Witness ==
    /\ mainPc = "exited"
    /\ pump[1]["c2b"].pc = "write"
    /\ sock[1]["in"].st = "open" /\ sock[1]["out"].st = "open"

\* ---- C9 (Spec)
\* C9: the accept loop returns only with the flag set; after an accept error
\* with the flag clear and after every dial, failed or not, it is back at
\* Accept; no step of a pump moves the accept loop or main; and the process
\* exits only with the flag set.
C9_LoopKeepsRunning ==
    /\ [][(svPc # "returned" /\ svPc' = "returned") => shuttingDown # 0]_vars
    /\ [][(svPc = "check" /\ svErr # ErrNil /\ shuttingDown = 0 /\ svPc' # svPc)
             => svPc' = "accept"]_vars
    /\ [][(svPc = "dial" /\ svPc' # svPc) => svPc' = "accept"]_vars
    /\ [][(\E p \in Pairs, d \in Dirs : Running(p, d) /\ pump'[p][d] # pump[p][d])
             => UNCHANGED <<svVars, mainVars>>]_vars
    /\ [](mainPc = "exited" => shuttingDown # 0)

\* an accept error was logged, the first pair died of a fatal error, the dial
\* for the second connection failed, and the loop is at Accept, flag clear
C9_Witness ==
    /\ acceptLogs = 1
    /\ pump[1]["c2b"].exit = "fatal"
    /\ dials[2] = 1 /\ sock[2]["out"].st = "none"
    /\ svPc = "accept"
    /\ shuttingDown = 0
    /\ mainPc = "wait"

\* ---- C10 (Spec)
\* C10: a dial that establishes no outbound connection leaves the inbound
\* connection closed, the connection's pumps unstarted and the accept loop at
\* Accept; no connection is ever dialed twice, and a connection without an
\* outbound socket never has a pump.
C10_DialFailure ==
    /\ [][(svPc = "dial" /\ svPc' # svPc /\ sock'[svConn]["out"].st = "none")
             => (/\ sock'[svConn]["in"].st = "closed"
                 /\ \A d \in Dirs : pump'[svConn][d].pc = "idle"
                 /\ dials'[svConn] = 1
                 /\ svPc' = "accept")]_vars
    /\ [][svPc = "dial" => svPc' \in {"dial", "accept"}]_vars
    /\ [](\A p \in Pairs : dials[p] <= 1)
    /\ [](\A p \in Pairs : sock[p]["out"].st = "none"
                              => \A d \in Dirs : pump[p][d].pc = "idle")

\* the first connection's dial failed; the second was accepted and is pumped
C10_Witness ==
    /\ dials[1] = 1
    /\ sock[1]["in"].st = "closed" /\ sock[1]["out"].st = "none"
    /\ nConns = 2
    /\ dials[2] = 1
    /\ Running(2, "c2b") /\ Running(2, "b2c")

\* ---- C11 (Spec)
\* a step of a pump of pair p: one of its running slowCopy goroutines moves
PumpStep(p) == \E d \in Dirs : Running(p, d) /\ pump'[p][d] # pump[p][d]

\* C11: a step of a pump of pair p (read, write, sleep, half-close, full
\* close, termination) changes no socket, no remote end, no pump and no
\* delivered byte of any other pair q, and what a Read or a Write on q's
\* sockets can return is the same after the step as before it.
C11_PairIsolation ==
    [][\A p \in Pairs : PumpStep(p) =>
          \A q \in Pairs \ {p} :
              /\ sock'[q] = sock[q]
              /\ peer'[q] = peer[q]
              /\ pump'[q] = pump[q]
              /\ written'[q] = written[q]
              /\ \A d \in Dirs :
                    /\ ReadResults(q, d)' = ReadResults(q, d)
                    /\ WriteResults(q, d)' = WriteResults(q, d)]_vars

\* the first pair was closed on a fatal error while the second, untouched,
\* has relayed a byte
C11_Witness ==
    /\ \A d \in Dirs : pump[1][d].exit = "fatal"
    /\ \A s \in Sides : sock[1][s].st = "closed"
    /\ \A s \in Sides : sock[2][s].st = "open"
    /\ written[2]["c2b"] = <<1>>
    /\ Running(2, "c2b") /\ Running(2, "b2c")

\* ---- C12 (ArgSpec)
\* C12: the accept loop and every pump run only with throughput > 0: once
\* main has started server, and whenever a slowCopy goroutine exists, the
\* throughput is positive.
C12_PositiveThroughput ==
    (svPc # "none" \/ \E p \in Pairs, d \in Dirs : pump[p][d].pc # "idle")
        => throughput > 0

\* ---- C13 (DelaySpec)
Max(a, b) == IF a > b THEN a ELSE b

\* C13: delay(T, n, e) sleeps exactly max(0, n/T seconds - e): with the sleep
\* and e in ticks, sleep * T = max(0, n * 1000 * TicksPerMs - e * T).
C13_ExactSleep ==
    [][(rate.pc = "delay" /\ rate.pc' = "read") =>
          (clock' - clock) * throughput
              = Max(0, rate.size * 1000 * TicksPerMs
                          - (clock - rate.start) * throughput)]_vars

\* ---- C14 (PairSpec)
\* C14: whenever both pumps of a pair have terminated, by whatever exit
\* paths, both of the pair's sockets are fully closed.
C14_PairDestroyed ==
    \A p \in Pairs :
        (\A d \in Dirs : pump[p][d].pc = "done")
            => \A s \in Sides : sock[p][s].st = "closed"

\* ---- C15 (Spec)
\* C15: while the dial for an accepted connection is pending, the accept
\* loop can accept the next connection: with the process alive, the listener
\* open and a connection waiting, Accept can return it.
C15_DialNeverBlocksAccept ==
    (Alive /\ svPc = "dial" /\ listener = "open" /\ nConns < MaxConns)
        => ENABLED AcceptOk

\* ---- C16 (AnyPairSpec)
\* C16: a Read that returns 0 bytes and no error takes the pump to its Write
\* with size 0, closing and shutting down nothing; the Write of 0 bytes that
\* succeeds delivers nothing and takes the pump to delay; delay, handed 0
\* bytes, sleeps for no time whatever the time the Read and Write took; and
\* the pump is then back at its Read.
C16_ZeroByteRead ==
    /\ [][\A d \in Dirs :
             (pump[1][d].pc = "read" /\ pump'[1][d] # pump[1][d]
                 /\ [n |-> 0, err |-> ErrNil] \in ReadResults(1, d))
                 => (/\ pump'[1][d].pc = "write"
                     /\ pump'[1][d].size = 0
                     /\ pump'[1][d].exit = "none"
                     /\ sock' = sock
                     /\ written' = written)]_vars
    /\ [][\A d \in Dirs :
             (pump[1][d].pc = "write" /\ pump[1][d].size = 0
                 /\ pump'[1][d].pc = "delay")
                 => (sock' = sock /\ written' = written)]_vars
    /\ [](\A d \in Dirs :
             (pump[1][d].pc = "delay" /\ pump[1][d].size = 0)
                 => \A e \in 0..(MaxElapsedMs * TicksPerMs) :
                        delays(throughput, 0, e) = {0})
    /\ [][\A d \in Dirs :
             (pump[1][d].pc = "delay" /\ pump[1][d].size = 0
                 /\ pump'[1][d] # pump[1][d])
                 => (/\ pump'[1][d].pc = "read"
                     /\ pump'[1][d].exit = "none"
                     /\ sock' = sock)]_vars

\* a pump has read 0 bytes, written them and is in delay; nothing is shut
\* down although the client's end-of-stream has arrived
C16_Witness ==
    /\ pump[1]["c2b"].pc = "delay"
    /\ pump[1]["c2b"].size = 0
    /\ peer[1]["in"].fin
    /\ \A s \in Sides : sock[1][s] = setTcpConnBuffers(OpenSock, bufSize)

\* ---- C17 (Spec)
\* C17: the flag starts clear and is 0 or 1 throughout; once 1 it stays 1;
\* the only step that changes it is main's store after the signal, which
\* takes it from 0 to 1 and can happen once; no step of the accept loop or of
\* a pump changes it.
C17_FlagWriteOnce ==
    /\ shuttingDown = 0
    /\ [](shuttingDown \in {0, 1})
    /\ [][shuttingDown = 1 => shuttingDown' = 1]_vars
    /\ [][shuttingDown' # shuttingDown
             => (/\ mainPc = "wait" /\ mainPc' = "close"
                 /\ shuttingDown = 0 /\ shuttingDown' = 1
                 /\ UNCHANGED <<svVars, pump>>)]_vars
    /\ [][mainPc # "wait" => mainPc' # "wait"]_vars
    /\ [][(svPc' # svPc \/ pump' # pump) => shuttingDown' = shuttingDown]_vars

\* the flag is still set after the accept loop has seen it and returned, a
\* pump has ended and main has returned
C17_Witness ==
    /\ shuttingDown = 1
    /\ svPc = "returned"
    /\ pump[1]["c2b"].pc = "done"
    /\ mainPc = "exited"

\* ---- C18 (Spec)
\* connection p was closed by the proxy or has its two pumps started
Handled(p) ==
    \/ sock[p]["in"].st = "closed"
    \/ \A d \in Dirs : pump[p][d].pc # "idle"

\* C18: whenever the accept loop is back at Accept or has returned, every
\* connection Accept has returned so far is closed or has its pumps started.
C18_NoConnDropped ==
    svPc \in {"accept", "returned"} => \A p \in 1..nConns : Handled(p)

\* ---- C19 (Spec)
\* the pumps of some connection are launched in this step
PumpLaunched == \E p \in Pairs, d \in Dirs : pump[p][d].pc = "idle" /\ pump'[p][d].pc # "idle"

\* C19 as stated: once the flag is set, no dial is made and no pump is
\* launched.
C19_NoPairAfterFlag ==
    [][shuttingDown = 1 => (dials' = dials /\ ~PumpLaunched)]_vars

\* C19, amended: a connection passes the accept loop's check only while the
\* flag is clear; with the flag set, a dial is made and pumps are launched
\* only for the connection that had passed the check before, by the dial
\* that was pending; and once the loop has left that dial with the flag set
\* it never dials again.
C19_ShutdownStopsNewPairs ==
    /\ [][(svPc = "check" /\ svPc' = "dial") => shuttingDown = 0]_vars
    /\ [][(shuttingDown = 1 /\ (dials' # dials \/ PumpLaunched))
             => (/\ svPc = "dial" /\ svPc' = "accept"
                 /\ \A p \in Pairs \ {svConn} :
                       dials'[p] = dials[p] /\ pump'[p] = pump[p])]_vars
    /\ [][(shuttingDown = 1 /\ svPc # "dial") => svPc' # "dial"]_vars

\* the flag is set and the listener closed while the dial for the first
\* connection is pending; the dial can still succeed and launch the pumps
C19_Witness ==
    /\ shuttingDown = 1
    /\ listener = "closed"
    /\ svPc = "dial" /\ svConn = 1
    /\ \A d \in Dirs : pump[1][d].pc = "idle"
    /\ ENABLED DialOk

\* ---- C20 (AnyPairSpec)
\* C20: once the client and the backend have both sent their end-of-stream,
\* both pumps of the pair eventually terminate; and each pump terminates
\* once its own source has sent its end-of-stream, whatever the other
\* direction does.
C20_TeardownTerminates ==
    /\ (\A s \in Sides : peer[1][s].fin) ~> (\A d \in Dirs : pump[1][d].pc = "done")
    /\ \A d \in Dirs : peer[1][Src(d)].fin ~> (pump[1][d].pc = "done")

====
